---- MODULE Spec2Model ----
(***************************************************************************)
(* State-machine model of class AliOSS (src/src/Alioss.js, lines 228-410): *)
(* the lazily constructed backend client, the task queue (#event) shared   *)
(* by put / multipartUpload, the leader election of getStore, and the      *)
(* keyed retry bookkeeping (#retryQueue) of multipartUpload.               *)
(*                                                                         *)
(* JavaScript runs every callback to completion, so one action is one      *)
(* synchronous run: a public call up to its first suspension, or the       *)
(* continuation of one await (getOptions, getStore, a backend call).       *)
(*                                                                         *)
(* The file also holds the earlier class Alioss (lines 4-220), whose every *)
(* operation goes through _init(callback); one instance of it is modelled  *)
(* by the variable legacy and the actions of NextLegacy.                   *)
(***************************************************************************)
EXTENDS Integers, Sequences, FiniteSets, TLC

\* ---------------------------------------------------------------- bounds
MaxTasks == 4      \* tasks registered in one run (fresh calls + resubmissions)
MaxFresh == 2      \* put / multipartUpload calls made by the user in one run
MaxRetry == 2      \* largest configured retryCount explored
NumKeys == 2       \* distinct resolved storage keys
MaxDirect == 1     \* direct (public) getStore() calls in one run
MaxLegacyCalls == 3  \* calls made on the Alioss instance in one run

Keys == 1..NumKeys
NoKey == 0         \* put tasks: the key plays no part in the state
NoCount == -1      \* #retryQueue has no entry for the key
NoClient == 0      \* this.#client === null

VARIABLES
    opts,          \* this.#opts: async, retryCount, cred (the options handed to OSS)
    client,        \* this.#client: NoClient or the number of the constructor call that made it
    ctorCalls,     \* history: how many times `new OSS` was invoked
    ctorArgs,      \* history: the options of the latest `new OSS` invocation
    queue,         \* this.#event: registered tasks not yet emitted, in registration order
    tasks,         \* every task ever registered (index = registration number)
    started,       \* history: task numbers in the order their backend call was issued
    retryQueue,    \* this.#retryQueue: key -> count (NoCount: no entry)
    cancelled,     \* clients whose cancel flag is set (client.isCancel() is true)
    gs,            \* every getStore() invocation: who called it and where it stands
    legacy         \* the Alioss instance: opts, client, and history (ctorCalls, clients, calls)

ossVars == <<opts, client, ctorCalls, ctorArgs, queue, tasks, started, retryQueue, cancelled, gs>>
vars == <<ossVars, legacy>>

\* ------------------------------------------------------ options (#opts)
\* Options a getOptions() promise may resolve with: undefined / {} or new credentials.
NoOptions == [f \in {} |-> 0]
Overrides == {NoOptions, [cred |-> "sts"]}

\* {...this.#opts, ...(options || {})}
MergeOptions(o, ov) ==
    [f \in (DOMAIN o) \cup (DOMAIN ov) |-> IF f \in DOMAIN ov THEN ov[f] ELSE o[f]]

\* What `await getOptions().catch(() => {})` evaluates to, `|| {}` applied.
SwallowedKeepsRejection(ok, ov) == IF ok THEN ov ELSE [cred |-> "error"]
ResolvedOptions(ok, ov) == IF ok THEN ov ELSE NoOptions

\* const { async, getOptions, ...options } = this.#opts
StripOptions(o) == [f \in (DOMAIN o) \ {"async"} |-> o[f]]


\* --------------------------------------------------- the task queue (#event)
\* utils/event: on(key, handler) registers a handler under a unique key.
EventOn(q, id) == Append(q, id)

\* utils/event: length is the number of registered handlers.
EventLength(q) == Len(q)

\* utils/event: emit() runs every registered handler in registration order and
\* then empties the queue.
EventEmit(q) == [run |-> q, rest |-> <<>>]

\* #init, client present: this.#event.emit()
InitOwnTaskOnly(q) ==
    IF q = <<>> THEN [run |-> <<>>, rest |-> <<>>]
    ELSE [run |-> <<q[Len(q)]>>, rest |-> SubSeq(q, 1, Len(q) - 1)]
InitOwnTaskKept(q) ==
    IF q = <<>> THEN [run |-> <<>>, rest |-> <<>>]
    ELSE [run |-> <<q[Len(q)]>>, rest |-> q]
InitPresent(q) == EventEmit(q)

\* #init, after `await this.getStore()`: this.#event.emit()
InitAfterStore(q) == EventEmit(q)

\* getStore: `if (this.#event.length - 1) return` -- any length but 1 is truthy.
NeverFollower(len) == FALSE
IsFollower(len) == len - 1 # 0

\* ------------------------------------------------------------------ tasks
\* The task put / multipartUpload registers. chain: the fresh call a
\* resubmission descends from; n: position in that chain (1 = the fresh call).
\* History: runs (times executed), err (how its backend call failed), cl (the
\* client it ran against), seen (the key's counter when it started), cx
\* (client.cancel() was called while it was in flight).
NewTask(kind, key, retry, chain, n) ==
    [kind |-> kind, key |-> key, retry |-> retry, chain |-> chain, n |-> n,
     st |-> "queued", runs |-> 0, err |-> "none", cl |-> NoClient,
     seen |-> NoCount, cx |-> FALSE]

\* multipartUpload task: `if (!isRetry) this.#retryQueue.delete(filename)`
KeepOnFresh(rq, key, retry) == rq
ClearAlways(rq, key, retry) == [rq EXCEPT ![key] = NoCount]
ClearOnFresh(rq, key, retry) ==
    IF retry THEN rq ELSE [rq EXCEPT ![key] = NoCount]

\* The synchronous part of one task: everything up to the awaited backend call.
\* s carries the fields a drain threads through its tasks; c is this.#client.
\* client.multipartUpload() clears the client's cancel flag when it starts.
StartTask(s, id, c) ==
    LET t == s.tasks[id] IN
    [tasks |-> [s.tasks EXCEPT ![id].st = "inflight",
                               ![id].runs = @ + 1,
                               ![id].cl = c,
                               ![id].seen = IF t.kind = "mpu" THEN s.retryQueue[t.key]
                                            ELSE NoCount],
     started |-> Append(s.started, id),
     retryQueue |-> IF t.kind = "mpu" THEN ClearOnFresh(s.retryQueue, t.key, t.retry)
                    ELSE s.retryQueue,
     cancelled |-> IF t.kind = "mpu" THEN s.cancelled \ {c} ELSE s.cancelled]

\* A drain: the handlers emit() runs, one after the other.
RECURSIVE RunAll(_, _, _)
RunAll(s, run, c) ==
    IF run = <<>> THEN s
    ELSE RunAll(StartTask(s, Head(run), c), Tail(run), c)


\* --------------------------------------------------------- initial state
TypeOK ==
    /\ opts.async \in BOOLEAN
    /\ opts.retryCount \in 0..MaxRetry
    /\ client \in 0..ctorCalls
    /\ Len(tasks) <= MaxTasks
    /\ \A i \in 1..Len(queue) : queue[i] \in 1..Len(tasks)
    /\ \A k \in Keys : retryQueue[k] \in (NoCount..MaxRetry)
    /\ legacy.opts.async \in BOOLEAN
    /\ legacy.client \in 0..legacy.ctorCalls
    /\ legacy.clients \subseteq 1..legacy.ctorCalls
    /\ Len(legacy.calls) <= MaxLegacyCalls

\* The state the constructor leaves: no client, empty queue, empty retry map.
Init ==
    /\ opts \in [async : BOOLEAN, retryCount : 0..MaxRetry, cred : {"base"}]
    /\ client = NoClient
    /\ ctorCalls = 0
    /\ ctorArgs = NoOptions
    /\ queue = <<>>
    /\ tasks = <<>>
    /\ started = <<>>
    /\ retryQueue = [k \in Keys |-> NoCount]
    /\ cancelled = {}
    /\ gs = <<>>
    /\ legacy \in [opts : [async : BOOLEAN, cred : {"base"}], client : {NoClient},
                   ctorCalls : {0}, clients : {{}}, calls : {<<>>}]

\* ------------------------------------------------------- client acquisition
\* `this.#client = new OSS({...options})` with the stored options o. The
\* constructor either returns a client or throws (ok = FALSE); when it throws
\* the assignment does not happen.
Construct(o, ok) ==
    /\ ctorCalls' = ctorCalls + 1
    /\ ctorArgs' = StripOptions(o)
    /\ client' = IF ok THEN ctorCalls + 1 ELSE client

GetStoreCall(from, st, val) ==
    [from |-> from, st |-> st, before |-> opts, val |-> val, cfg |-> "none"]

\* getStore() up to its first suspension, called with the client absent; q is
\* the queue as it stands at the call. Leaves tasks, started, retryQueue and
\* cancelled to the caller.
GetStoreAbsent(from, q) ==
    IF IsFollower(EventLength(q))
    THEN \* `return` without resolving: the promise stays pending for ever
         /\ gs' = Append(gs, GetStoreCall(from, "hung", NoClient))
         /\ UNCHANGED <<opts, client, ctorCalls, ctorArgs>>
    ELSE IF opts.async
    THEN \* suspended at `await this.#opts.getOptions()`
         /\ gs' = Append(gs, GetStoreCall(from, "awaitOptions", NoClient))
         /\ UNCHANGED <<opts, client, ctorCalls, ctorArgs>>
    ELSE \E ok \in BOOLEAN :
         /\ Construct(opts, ok)
         /\ gs' = Append(gs, GetStoreCall(from, IF ok THEN "resolved" ELSE "threw",
                                          IF ok THEN ctorCalls + 1 ELSE NoClient))
         /\ UNCHANGED opts

\* #init() up to its first suspension, run right after a task was registered:
\* T, q, rq are tasks, queue and retry map as the registering code left them.
HashInit(T, q, rq) ==
    IF client # NoClient
    THEN LET d == InitPresent(q)
             s == RunAll([tasks |-> T, started |-> started,
                          retryQueue |-> rq, cancelled |-> cancelled], d.run, client)
         IN /\ tasks' = s.tasks
            /\ started' = s.started
            /\ retryQueue' = s.retryQueue
            /\ cancelled' = s.cancelled
            /\ queue' = d.rest
            /\ UNCHANGED <<opts, client, ctorCalls, ctorArgs, gs>>
    ELSE /\ GetStoreAbsent("init", q)
         /\ tasks' = T
         /\ queue' = q
         /\ retryQueue' = rq
         /\ UNCHANGED <<started, cancelled>>

\* ------------------------------------------------------------ public calls
\* Calls made by the user so far, and the keys they named so far. Keys are
\* interchangeable, so a call names a key already used or the next unused one.
FreshCalls == Cardinality({i \in 1..Len(tasks) : ~tasks[i].retry})
UsedKeys == Cardinality({k \in Keys : \E i \in 1..Len(tasks) : tasks[i].key = k})

\* put(filename, data, config): register the task, then #init().
Put ==
    /\ UNCHANGED legacy
    /\ Len(tasks) < MaxTasks
    /\ FreshCalls < MaxFresh
    /\ LET id == Len(tasks) + 1 IN
       HashInit(Append(tasks, NewTask("put", NoKey, FALSE, id, 1)),
                EventOn(queue, id), retryQueue)

\* multipartUpload(filename, data, config), a fresh call whose filename
\* resolves to key: register the task, then #init().
MultipartUpload(key) ==
    /\ UNCHANGED legacy
    /\ Len(tasks) < MaxTasks
    /\ FreshCalls < MaxFresh
    /\ key <= UsedKeys + 1
    /\ LET id == Len(tasks) + 1 IN
       HashInit(Append(tasks, NewTask("mpu", key, FALSE, id, 1)),
                EventOn(queue, id), retryQueue)

\* getStore() called directly by the user of the instance.
GetStore ==
    /\ UNCHANGED legacy
    /\ Cardinality({g \in 1..Len(gs) : gs[g].from = "direct"}) < MaxDirect
    /\ IF client # NoClient
       THEN /\ gs' = Append(gs, GetStoreCall("direct", "resolved", client))
            /\ UNCHANGED <<opts, client, ctorCalls, ctorArgs>>
       ELSE GetStoreAbsent("direct", queue)
    /\ UNCHANGED <<queue, tasks, started, retryQueue, cancelled>>

\* client.cancel() on the shared client, called to stop a multipart upload in
\* flight: sets that client's cancel flag. The flag belongs to the client, so
\* the call reaches every multipart upload in flight on it.
Cancel ==
    /\ UNCHANGED legacy
    /\ client # NoClient
    /\ \E i \in 1..Len(tasks) : tasks[i].kind = "mpu" /\ tasks[i].st = "inflight"
    /\ client \notin cancelled
    /\ cancelled' = cancelled \cup {client}
    /\ tasks' = [i \in 1..Len(tasks) |->
                    IF tasks[i].kind = "mpu" /\ tasks[i].st = "inflight" /\ tasks[i].cl = client
                    THEN [tasks[i] EXCEPT !.cx = TRUE]
                    ELSE tasks[i]]
    /\ UNCHANGED <<opts, client, ctorCalls, ctorArgs, queue, started, retryQueue, gs>>

\* ------------------------------------------------------------ continuations
\* getStore() resumes after `await getOptions().catch(() => {})`: merge the
\* options, construct the client, resolve.
OptionsSettle(g, ok, ov, ctorOk) ==
    /\ UNCHANGED legacy
    /\ gs[g].st = "awaitOptions"
    /\ LET o == MergeOptions(opts, ResolvedOptions(ok, ov)) IN
       /\ opts' = o
       /\ Construct(o, ctorOk)
       /\ gs' = [gs EXCEPT ![g].st = IF ctorOk THEN "resolved" ELSE "threw",
                           ![g].val = IF ctorOk THEN ctorCalls + 1 ELSE NoClient,
                           ![g].cfg = IF ok THEN "ok" ELSE "rejected"]
    /\ UNCHANGED <<queue, tasks, started, retryQueue, cancelled>>

\* #init() resumes after `await this.getStore()`: emit, resolve.
InitResume(g) ==
    /\ UNCHANGED legacy
    /\ gs[g].from = "init"
    /\ gs[g].st = "resolved"
    /\ LET d == InitAfterStore(queue)
           s == RunAll([tasks |-> tasks, started |-> started,
                        retryQueue |-> retryQueue, cancelled |-> cancelled], d.run, client)
       IN /\ tasks' = s.tasks
          /\ started' = s.started
          /\ retryQueue' = s.retryQueue
          /\ cancelled' = s.cancelled
          /\ queue' = d.rest
    /\ gs' = [gs EXCEPT ![g].st = "done"]
    /\ UNCHANGED <<opts, client, ctorCalls, ctorArgs>>


\* ---------------------------------------------------------- backend results
\* `this.#client && this.#client.isCancel()` in the failure handler.
CancelIgnored(c, cs) == FALSE
IsCancel(c, cs) == c # NoClient /\ c \in cs

\* `const count = this.#retryQueue.get(filename)` after the has/set(0) default.
RetryCountOf(rq, key) == IF rq[key] = NoCount THEN 0 ELSE rq[key]

\* `if (count < this.#opts.retryCount)`
RetryUpToLimit(count, limit) == count <= limit
ShouldRetry(count, limit) == count < limit

\* The failure handler ends in `throw err`, caught by `reject(error)`,
\* whether or not it resubmitted.
ResolvedWhenResubmitted(resubmitted) == IF resubmitted THEN "resolved" ELSE "rejected"
FailureSettles(resubmitted) == "rejected"

\* The awaited backend call of task id returns: resolve(formatResponse(...)).
BackendSucceed(id) ==
    /\ UNCHANGED legacy
    /\ id \in 1..Len(tasks)
    /\ tasks[id].st = "inflight"
    /\ tasks' = [tasks EXCEPT ![id].st = "resolved"]
    /\ UNCHANGED <<opts, client, ctorCalls, ctorArgs, queue, started, retryQueue, cancelled, gs>>

\* The awaited backend call of a put task fails: reject(error).
PutFail(id) ==
    /\ UNCHANGED legacy
    /\ id \in 1..Len(tasks)
    /\ tasks[id].st = "inflight"
    /\ tasks[id].kind = "put"
    /\ tasks' = [tasks EXCEPT ![id].st = "rejected", ![id].err = "fail"]
    /\ UNCHANGED <<opts, client, ctorCalls, ctorArgs, queue, started, retryQueue, cancelled, gs>>

\* The awaited backend call of a multipartUpload task fails while the client
\* reports a cancellation: rethrow, reject(error).
MultipartCancelled(id) ==
    /\ UNCHANGED legacy
    /\ id \in 1..Len(tasks)
    /\ tasks[id].st = "inflight"
    /\ tasks[id].kind = "mpu"
    /\ IsCancel(client, cancelled)
    /\ tasks' = [tasks EXCEPT ![id].st = "rejected", ![id].err = "cancel"]
    /\ UNCHANGED <<opts, client, ctorCalls, ctorArgs, queue, started, retryQueue, cancelled, gs>>

\* The awaited backend call of a multipartUpload task fails and the client
\* reports no cancellation: default the counter to 0, resubmit below the
\* limit (a new multipartUpload call with __isRetry, run up to its first
\* suspension), rethrow, reject(error).
MultipartFail(id) ==
    /\ UNCHANGED legacy
    /\ id \in 1..Len(tasks)
    /\ tasks[id].st = "inflight"
    /\ tasks[id].kind = "mpu"
    /\ ~IsCancel(client, cancelled)
    /\ LET t == tasks[id]
           count == RetryCountOf(retryQueue, t.key)
           resubmit == ShouldRetry(count, opts.retryCount)
           T == [tasks EXCEPT ![id].st = FailureSettles(resubmit), ![id].err = "fail"]
       IN IF resubmit
          THEN /\ Len(tasks) < MaxTasks
               /\ LET new == Len(tasks) + 1 IN
                  HashInit(Append(T, NewTask("mpu", t.key, TRUE, t.chain, t.n + 1)),
                           EventOn(queue, new),
                           [retryQueue EXCEPT ![t.key] = count + 1])
          ELSE /\ tasks' = T
               /\ retryQueue' = [retryQueue EXCEPT ![t.key] = count]
               /\ UNCHANGED <<opts, client, ctorCalls, ctorArgs, queue, started, cancelled, gs>>

\* ------------------------------------------------------- class Alioss
\* The operations of class Alioss that wrap one backend call in _init.
LegacyOps == {"upload", "resumeMultipartUpload", "abortMultipartUpload"}

\* One call on the instance: st is "awaitConfig" (suspended at getConfig),
\* "running" (backend call issued on client cl), "resolved", "rejected" or
\* "hung" (_init caught an exception, the callback never runs and the
\* call's promise never settles).
LegacyCallRecord(op, st, cl) == [op |-> op, st |-> st, cl |-> cl]

\* _init from `const {...} = this.opts` on: `this.client = new OSS({...})`
\* and, when the constructor returned, `callback.call(this, this.client)` up
\* to the callback's awaited backend call. When it throws, the catch logs
\* and the callback is skipped. calls is the call list with this call last
\* or at place i.
LegacyConstruct(o, calls, i, ok) ==
    LET n == legacy.ctorCalls + 1 IN
    legacy' = [legacy EXCEPT
                  !.opts = o,
                  !.ctorCalls = n,
                  !.clients = IF ok THEN @ \cup {n} ELSE @,
                  !.client = IF ok THEN n ELSE @,
                  !.calls = [calls EXCEPT ![i].st = IF ok THEN "running" ELSE "hung",
                                          ![i].cl = IF ok THEN n ELSE NoClient]]

\* upload / resumeMultipartUpload / abortMultipartUpload: _init(callback) up
\* to its first suspension.
LegacyCall(op) ==
    /\ Len(legacy.calls) < MaxLegacyCalls
    /\ LET i == Len(legacy.calls) + 1 IN
       IF legacy.client # NoClient
       THEN \* `if (!this.client)` is false: the callback runs on this.client
            legacy' = [legacy EXCEPT !.calls = Append(@, LegacyCallRecord(op, "running", legacy.client))]
       ELSE IF legacy.opts.async
       THEN \* suspended at `await this.opts.getConfig()`
            legacy' = [legacy EXCEPT !.calls = Append(@, LegacyCallRecord(op, "awaitConfig", NoClient))]
       ELSE \E ok \in BOOLEAN :
                LegacyConstruct(legacy.opts,
                                Append(legacy.calls, LegacyCallRecord(op, "awaitConfig", NoClient)),
                                i, ok)
    /\ UNCHANGED ossVars

\* _init resumes after `await this.opts.getConfig()`: a rejection lands in
\* the catch; otherwise the options are merged and the client is constructed
\* without looking at this.client again.
LegacyConfigSettle(i, ok, ov, ctorOk) ==
    /\ i \in 1..Len(legacy.calls)
    /\ legacy.calls[i].st = "awaitConfig"
    /\ IF ok
       THEN LegacyConstruct(MergeOptions(legacy.opts, ov), legacy.calls, i, ctorOk)
       ELSE /\ ctorOk
            /\ ov = NoOptions
            /\ legacy' = [legacy EXCEPT !.calls[i].st = "hung"]
    /\ UNCHANGED ossVars

\* The callback's backend call returns: resolve(...).
LegacyBackendSucceed(i) ==
    /\ i \in 1..Len(legacy.calls)
    /\ legacy.calls[i].st = "running"
    /\ legacy' = [legacy EXCEPT !.calls[i].st = "resolved"]
    /\ UNCHANGED ossVars

\* The callback's backend call fails: `.catch((err) => { reject(err) })`; the
\* resolve that follows acts on a promise already rejected.
LegacyBackendFail(i) ==
    /\ i \in 1..Len(legacy.calls)
    /\ legacy.calls[i].st = "running"
    /\ legacy' = [legacy EXCEPT !.calls[i].st = "rejected"]
    /\ UNCHANGED ossVars

\* ------------------------------------------------------------ specification
Next ==
    \/ Put
    \/ \E key \in Keys : MultipartUpload(key)
    \/ GetStore
    \/ Cancel
    \/ \E g \in 1..Len(gs), ok \in BOOLEAN, ov \in Overrides, ctorOk \in BOOLEAN :
          OptionsSettle(g, ok, ov, ctorOk)
    \/ \E g \in 1..Len(gs) : InitResume(g)
    \/ \E id \in 1..MaxTasks : BackendSucceed(id)
    \/ \E id \in 1..MaxTasks : PutFail(id)
    \/ \E id \in 1..MaxTasks : MultipartCancelled(id)
    \/ \E id \in 1..MaxTasks : MultipartFail(id)

Spec == Init /\ [][Next]_vars

\* The Alioss instance on its own.
NextLegacy ==
    \/ \E op \in LegacyOps : LegacyCall(op)
    \/ \E i \in 1..MaxLegacyCalls, ok \in BOOLEAN, ov \in Overrides, ctorOk \in BOOLEAN :
          LegacyConfigSettle(i, ok, ov, ctorOk)
    \/ \E i \in 1..MaxLegacyCalls : LegacyBackendSucceed(i)
    \/ \E i \in 1..MaxLegacyCalls : LegacyBackendFail(i)

SpecLegacy == Init /\ [][NextLegacy]_vars

\* Every suspended continuation eventually runs: getOptions settles, the
\* microtask after getStore() runs, every backend call returns.
FairSpec ==
    /\ Spec
    /\ WF_vars(\E g \in 1..Len(gs), ok \in BOOLEAN, ov \in Overrides, ctorOk \in BOOLEAN :
                  OptionsSettle(g, ok, ov, ctorOk))
    /\ WF_vars(\E g \in 1..Len(gs) : InitResume(g))
    /\ \A id \in 1..MaxTasks :
          WF_vars(BackendSucceed(id) \/ PutFail(id) \/ MultipartCancelled(id) \/ MultipartFail(id))


\* =================================================================== claims
NoDirect == \A g \in 1..Len(gs) : gs[g].from = "init"
Registered == 1..Len(tasks)
InQueue(id) == \E i \in 1..Len(queue) : queue[i] = id
Settled(id) == tasks[id].st \in {"resolved", "rejected"}
\* Nothing is left to run: no getOptions outstanding, no #init continuation
\* waiting for its microtask, no backend call in flight.
Quiescent ==
    /\ \A g \in 1..Len(gs) : gs[g].st # "awaitOptions"
    /\ \A g \in 1..Len(gs) : ~(gs[g].from = "init" /\ gs[g].st = "resolved")
    /\ \A id \in Registered : tasks[id].st # "inflight"

\* C1: while only put / multipartUpload calls are made on the instance, `new
\* OSS` is invoked at most once over the run, and exactly once by the time a
\* client exists or a task has run.
C1_ConstructedOnce ==
    NoDirect =>
        /\ ctorCalls <= 1
        /\ (client # NoClient \/ started # <<>>) => ctorCalls = 1

\* Async configuration, a leader and at least one follower, all tasks run.
C1_Witness ==
    /\ NoDirect
    /\ opts.async
    /\ \E g \in 1..Len(gs) : gs[g].st = "hung"
    /\ Len(tasks) >= 2
    /\ \A id \in Registered : tasks[id].runs = 1
    /\ ctorCalls = 1

\* C3: every registered task is executed exactly once: it is in the queue
\* (once) until it runs, runs once, and is never in the queue again.
C3_ExactlyOnce ==
    \A id \in Registered :
        /\ tasks[id].runs <= 1
        /\ InQueue(id) <=> tasks[id].runs = 0
        /\ Cardinality({i \in 1..Len(queue) : queue[i] = id}) <= 1
        /\ tasks[id].runs = 0 <=> tasks[id].st = "queued"

\* Sync configuration: the second call drained both tasks before the leader's
\* own drain ran, and the leader's drain has run since.
C3_Witness ==
    /\ ~opts.async
    /\ Len(gs) = 1 /\ gs[1].from = "init" /\ gs[1].st = "done"
    /\ Len(tasks) >= 3
    /\ ~tasks[2].retry
    /\ \E id \in Registered : tasks[id].retry
    /\ \A id \in Registered : tasks[id].runs = 1

\* C4: tasks start in registration order: the k-th task to issue its backend
\* call is the k-th task registered.
C4_Fifo == \A i \in 1..Len(started) : started[i] = i

\* Two calls drained by the leader after an async initialization, then a
\* resubmission drained by its own call with the client present: all started.
C4_Witness ==
    /\ opts.async
    /\ Len(gs) >= 2 /\ gs[1].st = "done" /\ gs[2].st = "hung"
    /\ Len(started) >= 3
    /\ \E id \in Registered : tasks[id].retry /\ tasks[id].st = "inflight"


\* C2: every put / multipartUpload call eventually has its task executed and
\* its promise settled. Stated on finite runs: once nothing is left to run
\* (every getOptions and every backend call has returned, every continuation
\* has run), no call made on the instance is still unexecuted or unsettled.
C2_AllCallsComplete ==
    (NoDirect /\ Quiescent) =>
        \A id \in Registered : tasks[id].runs >= 1 /\ Settled(id)

\* C10: when `new OSS` throws during initialization, every pending call is
\* rejected and later calls are not blocked. Stated on finite runs: once the
\* constructor has thrown and nothing is left to run, every call made on the
\* instance, before or after the failure, has been rejected.
C10_CtorFailureRejectsAll ==
    ((\E g \in 1..Len(gs) : gs[g].st = "threw") /\ client = NoClient /\ Quiescent) =>
        \A id \in Registered : tasks[id].st = "rejected"

\* ------------------------------------------------------------ retry chains
ChainTasks(c) == {i \in Registered : tasks[i].chain = c}
Resubmissions(c) == Cardinality({i \in ChainTasks(c) : tasks[i].retry})
FreshMultipart == {c \in Registered : tasks[c].kind = "mpu" /\ ~tasks[c].retry}
\* c is the only multipartUpload call made for its key.
OnlyCallForKey(c) ==
    \A i \in Registered :
        (tasks[i].kind = "mpu" /\ tasks[i].key = tasks[c].key) => tasks[i].chain = c
\* Every attempt of the chain has failed, none of them by cancellation.
AllAttemptsFailed(c) ==
    \A i \in ChainTasks(c) : tasks[i].st = "rejected" /\ tasks[i].err = "fail"

\* C5: a single fresh multipartUpload for a key never gets more than
\* retryCount resubmissions, and when every attempt of its chain has failed
\* with a non-cancellation error the chain holds exactly retryCount
\* resubmissions, retryCount + 1 attempts, all executed.
C5_ExactlyKResubmissions ==
    \A c \in FreshMultipart :
        OnlyCallForKey(c) =>
            /\ Resubmissions(c) <= opts.retryCount
            /\ AllAttemptsFailed(c) =>
                  /\ Resubmissions(c) = opts.retryCount
                  /\ Cardinality(ChainTasks(c)) = opts.retryCount + 1
                  /\ \A i \in ChainTasks(c) : tasks[i].runs = 1

\* retryCount = MaxRetry and the chain ran to exhaustion.
C5_Witness ==
    \E c \in FreshMultipart :
        /\ OnlyCallForKey(c)
        /\ AllAttemptsFailed(c)
        /\ opts.retryCount = MaxRetry
        /\ Resubmissions(c) = MaxRetry

\* C6: a multipartUpload attempt that fails while client.isCancel() is true
\* is rejected in that step, which registers no task and leaves the retry
\* map and the queue as they were.
C6_CancelStep ==
    \A id \in Registered :
        (/\ tasks[id].kind = "mpu"
         /\ tasks[id].st = "inflight"
         /\ tasks'[id].err # "none"
         /\ client \in cancelled)
        => /\ tasks'[id].st = "rejected"
           /\ Len(tasks') = Len(tasks)
           /\ retryQueue' = retryQueue
           /\ queue' = queue
           /\ started' = started
\* C6, as a property of every step.
C6_CancelIsTerminal == [][C6_CancelStep]_vars

\* A first attempt and a resubmission both failed by cancellation.
C6_Witness ==
    /\ \E id \in Registered : tasks[id].err = "cancel" /\ tasks[id].retry
                              /\ retryQueue[tasks[id].key] = tasks[id].n - 1
    /\ \E id \in Registered : tasks[id].err = "cancel" /\ ~tasks[id].retry
                              /\ tasks[id].seen = NoCount
                              /\ retryQueue[tasks[id].key] = NoCount


\* C7: the promise of a failed attempt is rejected at that failure, before and
\* whatever its resubmissions do: every resubmission's predecessor is rejected
\* with the backend's error, a resolved attempt has no successor (so a chain
\* failing twice and then succeeding makes exactly three attempts), and a
\* rejected promise is never resolved afterwards.
C7_State ==
    /\ \A i \in Registered :
          tasks[i].retry =>
              \E p \in Registered :
                  /\ p < i
                  /\ tasks[p].chain = tasks[i].chain
                  /\ tasks[p].n = tasks[i].n - 1
                  /\ tasks[p].st = "rejected"
                  /\ tasks[p].err = "fail"
    /\ \A i \in Registered :
          tasks[i].st = "resolved" =>
              /\ tasks[i].err = "none"
              /\ \A j \in Registered : tasks[j].chain = tasks[i].chain => tasks[j].n <= tasks[i].n
    /\ \A i \in Registered : tasks[i].err # "none" => tasks[i].st = "rejected"
C7_Stable ==
    \A i \in Registered : tasks[i].st = "rejected" => tasks'[i].st = "rejected"
\* C7: the state part in every state, the stability part in every step.
C7_DecoupledRetry == [](C7_State) /\ [][C7_Stable]_vars

\* Fails twice, then succeeds: three attempts, the original rejected.
C7_Witness ==
    \E c \in FreshMultipart :
        /\ Cardinality(ChainTasks(c)) = 3
        /\ tasks[c].st = "rejected" /\ tasks[c].err = "fail"
        /\ \E i, j \in ChainTasks(c) :
              /\ tasks[i].n = 2 /\ tasks[i].st = "rejected" /\ tasks[i].err = "fail"
              /\ tasks[j].n = 3 /\ tasks[j].st = "resolved"
        /\ Quiescent

\* The step in which the fresh multipartUpload task id issues its backend call.
FreshStart(id) ==
    /\ tasks[id].kind = "mpu" /\ ~tasks[id].retry
    /\ tasks[id].st = "queued" /\ tasks'[id].st = "inflight"
\* The step in which that attempt fails with a non-cancellation error.
FreshFails(id) ==
    /\ tasks[id].kind = "mpu" /\ ~tasks[id].retry
    /\ tasks[id].st = "inflight" /\ tasks'[id].err = "fail"

\* C8: a fresh multipartUpload whose key has a counter removes it before its
\* backend call is issued, and its own first failure observes a count of 0.
C8_FreshStartsFromZero ==
    [][\A id \in Registered :
          /\ (FreshStart(id) /\ retryQueue[tasks[id].key] # NoCount)
                => retryQueue'[tasks[id].key] = NoCount
          /\ (FreshFails(id) /\ tasks[id].seen # NoCount)
                => RetryCountOf(retryQueue, tasks[id].key) = 0]_vars


\* C9: when getOptions() rejects, the step that resumes getStore leaves the
\* stored options as they were when getOptions was called, invokes `new OSS`
\* with them and rejects no promise; the #init continuation that follows
\* starts every queued task against the client and empties the queue.
C9_RejectedStep ==
    \A g \in 1..Len(gs) :
        /\ (gs[g].st = "awaitOptions" /\ gs'[g].cfg = "rejected")
              => /\ opts' = opts
                 /\ ctorCalls' = ctorCalls + 1
                 /\ ctorArgs' = StripOptions(opts)
                 /\ gs'[g].st = "resolved" => client' = ctorCalls'
                 /\ tasks' = tasks
        /\ (gs[g].cfg = "rejected" /\ gs[g].from = "init"
            /\ gs[g].st = "resolved" /\ gs'[g].st = "done")
              => /\ queue' = <<>>
                 /\ \A i \in 1..Len(queue) :
                       /\ tasks'[queue[i]].st = "inflight"
                       /\ tasks'[queue[i]].cl = client
                       /\ tasks'[queue[i]].err = "none"
\* C9, as a property of every step.
C9_ConfigFailureSwallowed == [][C9_RejectedStep]_vars

\* getOptions rejected with calls queued behind it; the client was built and
\* the leader's drain ran both tasks, one of which has since resolved.
C9_Witness ==
    \E g \in 1..Len(gs) :
        /\ gs[g].cfg = "rejected" /\ gs[g].from = "init" /\ gs[g].st = "done"
        /\ opts = gs[g].before
        /\ NoDirect
        /\ Len(tasks) >= 2
        /\ \A id \in Registered : tasks[id].runs = 1
        /\ \E id \in Registered : tasks[id].st = "resolved"


\* C11: getStore() returns the shared client, creating it if absent: `new
\* OSS` is invoked at most once however direct getStore() calls interleave
\* with put / multipartUpload, and every direct call resolves with the shared
\* client. Stated on finite runs: once nothing is left to run, no direct call
\* is still pending and each one holds this.#client.
C11_GetStoreShared ==
    /\ ctorCalls <= 1
    /\ Quiescent =>
          \A g \in 1..Len(gs) :
              gs[g].from = "direct" =>
                  /\ gs[g].st = "resolved"
                  /\ gs[g].val = client
                  /\ client # NoClient


\* C12: a promise is settled at most once, in the step in which its own
\* backend call returns: rejected when that call failed (transient, cancelled
\* or with the retries used up), resolved when it succeeded; a recorded
\* failure always belongs to a rejected promise.
C12_State ==
    \A id \in Registered :
        /\ tasks[id].err # "none" <=> tasks[id].st = "rejected"
        /\ tasks[id].st = "resolved" => tasks[id].runs >= 1
C12_Step ==
    \A id \in Registered :
        /\ Settled(id) => (tasks'[id].st = tasks[id].st /\ tasks'[id].err = tasks[id].err)
        /\ (~Settled(id) /\ tasks'[id].st \in {"resolved", "rejected"})
              => tasks[id].st = "inflight"
        /\ (tasks[id].st = "inflight" /\ tasks'[id].err # "none")
              => tasks'[id].st = "rejected"
C12_SettledOnceByOwnOutcome == [](C12_State) /\ [][C12_Step]_vars

\* A put failed, a multipartUpload attempt failed and was resubmitted, and the
\* resubmission failed by cancellation: all three promises rejected.
C12_Witness ==
    /\ \E id \in Registered : tasks[id].kind = "put" /\ tasks[id].st = "rejected"
    /\ \E id \in Registered :
          /\ tasks[id].kind = "mpu" /\ tasks[id].err = "fail" /\ tasks[id].st = "rejected"
          /\ \E j \in Registered :
                /\ tasks[j].chain = tasks[id].chain /\ tasks[j].n = tasks[id].n + 1
                /\ tasks[j].err = "cancel" /\ tasks[j].st = "rejected"


\* getStore() invocations that called getOptions(): those suspended on it and
\* those it has settled for.
OptionsCalls == {g \in 1..Len(gs) : gs[g].st = "awaitOptions" \/ gs[g].cfg # "none"}
\* getStore() invocations now driving acquisition.
Driving == {g \in 1..Len(gs) : gs[g].st = "awaitOptions"}

\* C13: while the client does not exist and the queue is non-empty exactly one
\* call is driving acquisition, and getOptions is invoked at most once per
\* instance.
C13_OneLeader ==
    /\ (client = NoClient /\ queue # <<>>) => Cardinality(Driving) = 1
    /\ Cardinality(OptionsCalls) <= 1


\* A resubmission for key k is queued or in flight.
ChainActive(k) ==
    \E i \in Registered :
        /\ tasks[i].kind = "mpu" /\ tasks[i].key = k /\ tasks[i].retry
        /\ tasks[i].st \in {"queued", "inflight"}

\* C14: the retry map holds an entry for a key only while a resubmission for
\* that key is queued or in flight.
C14_CounterOnlyWhileActive ==
    \A k \in Keys : retryQueue[k] # NoCount => ChainActive(k)

\* C15: every count in the retry map is an integer between 0 and retryCount.
C15_CountInRange ==
    \A k \in Keys :
        retryQueue[k] # NoCount => (retryQueue[k] >= 0 /\ retryQueue[k] <= opts.retryCount)

\* Two uploads to one key, both failed and resubmitted, the second
\* resubmission pushing the shared count to retryCount.
C15_Witness ==
    \E c, d \in FreshMultipart :
        /\ c # d
        /\ tasks[c].key = tasks[d].key
        /\ tasks[c].err = "fail" /\ tasks[d].err = "fail"
        /\ Resubmissions(c) >= 1 /\ Resubmissions(d) >= 1
        /\ retryQueue[tasks[c].key] = opts.retryCount

\* C16: the chain started by one fresh multipartUpload performs at most
\* retryCount resubmissions, whatever other uploads target the same key.
C16_ChainBounded ==
    \A c \in FreshMultipart : Resubmissions(c) <= opts.retryCount


\* Every attempt of a chain names the key of the fresh call that started it.
C17_State ==
    \A i \in Registered : tasks[i].key = tasks[tasks[i].chain].key

\* A step that registers a resubmission: it comes from a failing attempt of
\* the same chain and key, the key's counter goes up by exactly one, and the
\* resubmission starts with that counter in place.
C17_Step ==
    LET new == Len(tasks) + 1 IN
    (Len(tasks') = new /\ tasks'[new].retry) =>
        \E id \in Registered :
            /\ tasks[id].st = "inflight" /\ tasks'[id].err = "fail"
            /\ tasks'[new].key = tasks[id].key
            /\ tasks'[new].chain = tasks[id].chain
            /\ tasks'[new].st = "inflight"
            /\ tasks'[new].seen = RetryCountOf(retryQueue, tasks[id].key) + 1
            /\ retryQueue'[tasks[id].key] = RetryCountOf(retryQueue, tasks[id].key) + 1

\* C17: a resubmission reuses the key of the attempt that failed and neither
\* removes nor resets the key's counter, which goes up by exactly one per
\* scheduled resubmission.
C17_RetryReusesKey == [](C17_State) /\ [][C17_Step]_vars

\* A chain of three attempts on one key, the counter at 2 after the second
\* resubmission.
C17_Witness ==
    \E i \in Registered :
        /\ tasks[i].retry /\ tasks[i].n = 3 /\ tasks[i].st = "inflight"
        /\ tasks[i].seen = 2
        /\ retryQueue[tasks[i].key] = 2
        /\ \A j \in ChainTasks(tasks[i].chain) : tasks[j].key = tasks[i].key


\* The failure handler of a multipart upload runs: an upload that was
\* cancelled schedules nothing, one that was not and whose counter is below
\* retryCount schedules exactly one resubmission.
C18_Step ==
    \A id \in Registered :
        (tasks[id].kind = "mpu" /\ tasks[id].st = "inflight" /\ tasks'[id].err # "none") =>
            IF tasks[id].cx
            THEN Len(tasks') = Len(tasks)
            ELSE RetryCountOf(retryQueue, tasks[id].key) < opts.retryCount =>
                     Len(tasks') = Len(tasks) + 1

\* C18: whether a failing multipartUpload is resubmitted depends only on that
\* upload's own failure: a cancelled upload is never resubmitted, whatever
\* other uploads started after the cancel, and an upload that was not
\* cancelled is resubmitted while its counter is below retryCount.
C18_OwnFailureDecides == [][C18_Step]_vars


\* C19 as stated: once the client exists the task queue is empty between calls.
C19_QueueEmptyOnceClient ==
    client # NoClient => queue = <<>>

\* Tasks wait in the queue with the client present only before the first drain.
C19_State ==
    (client # NoClient /\ queue # <<>>) => started = <<>>

\* A call that registers a task while the client exists drains the queue
\* itself: the new task has started and nothing is left queued.
C19_Step ==
    (client # NoClient /\ Len(tasks') > Len(tasks)) =>
        /\ queue' = <<>>
        /\ \A i \in (Len(tasks) + 1)..Len(tasks') :
               tasks'[i].st = "inflight" /\ tasks'[i].runs = 1

\* C19 (amended): a task registered while the client exists, by a new call or
\* by a failure handler's resubmission, is started by its own call's #init
\* before that call returns, and the queue is empty from the first drain on;
\* tasks registered before the client existed stay queued, client present or
\* not, until the first drain.
C19_DrainedByOwnCall == [](C19_State) /\ [][C19_Step]_vars

\* A resubmission in flight after the attempt that scheduled it was rejected,
\* next to a fresh call that found the client present.
C19_Witness ==
    /\ queue = <<>>
    /\ \E i, j \in Registered :
           /\ tasks[i].retry /\ tasks[i].st = "inflight"
           /\ ~tasks[j].retry /\ j > 1 /\ tasks[j].st = "inflight"
           /\ \E p \in ChainTasks(tasks[i].chain) :
                  tasks[p].n + 1 = tasks[i].n /\ tasks[p].st = "rejected"


\* Calls on the Alioss instance whose callback ran, and the clients they used.
LegacyRan == {i \in 1..Len(legacy.calls) : legacy.calls[i].cl # NoClient}
LegacyUsed == {legacy.calls[i].cl : i \in LegacyRan}

\* C20: with configuration resolved asynchronously, abortMultipartUpload,
\* resumeMultipartUpload and upload calls issued before the client exists
\* share one initialization: at most one client is constructed and every
\* call runs against it.
C20_SingleFlightInit ==
    legacy.opts.async =>
        /\ Cardinality(legacy.clients) <= 1
        /\ Cardinality(LegacyUsed) <= 1

====
